---- MODULE Spec2Model ----
(***************************************************************************)
(* A model of jira_report/cli.py: the alias generation of get_pr, the      *)
(* correlation of a pull request with Jira issues (find_issues_for_pr),    *)
(* the derivation of an issue's dates (get_issue_dates) and the report     *)
(* loop of xls_export.                                                     *)
(*                                                                         *)
(* Python strings are sequences of one-character strings, so that lower(), *)
(* find(), split() and join() are computed, not assumed.                   *)
(***************************************************************************)
EXTENDS Integers, Sequences, FiniteSets, TLC

VARIABLES
    \* get_pr
    gp_issue, gp_prs, gp_pc, names, gp_ret,
    \* find_issues_for_pr
    fi_pr, fi_issues, fi_pc, results, ran, warned,
    \* get_issue_dates
    gd_issue, gd_n, gd_pc, date_from, date_to,
    \* main, find_pullrequests and xls_export
    pulls, x_issues, pullrequests, x_pc, x_n, row, sheet

gpVars == <<gp_issue, gp_prs, gp_pc, names, gp_ret>>
fiVars == <<fi_pr, fi_issues, fi_pc, results, ran, warned>>
gdVars == <<gd_issue, gd_n, gd_pc, date_from, date_to>>
xVars  == <<pulls, x_issues, pullrequests, x_pc, x_n, row, sheet>>
vars == <<gpVars, fiVars, gdVars, xVars>>
notGp == <<fiVars, gdVars, xVars>>
notFi == <<gpVars, gdVars, xVars>>
notGd == <<gpVars, fiVars, xVars>>
notX  == <<gpVars, fiVars, gdVars>>

-----------------------------------------------------------------------------
(* Python values *)

\* None, a value no string equals (strings hold one-character items only)
None == <<"None">>

UpperChars == <<"A","B","C","D","E","F","G","H","I","J","K","L","M",
                "N","O","P","Q","R","S","T","U","V","W","X","Y","Z">>
LowerChars == <<"a","b","c","d","e","f","g","h","i","j","k","l","m",
                "n","o","p","q","r","s","t","u","v","w","x","y","z">>

\* the lower-case letter of each upper-case letter
LowerOf ==
    [c \in {UpperChars[i] : i \in 1..Len(UpperChars)} |->
        LowerChars[CHOOSE i \in 1..Len(UpperChars) : UpperChars[i] = c]]

\* one character of str.lower()
LowerChar(c) == IF c \in DOMAIN LowerOf THEN LowerOf[c] ELSE c

\* str.lower()
Lower(s) == [i \in 1..Len(s) |-> LowerChar(s[i])]

SetMin(S) == CHOOSE x \in S : \A y \in S : x <= y

\* needle occurs in hay at the 0-based index i
OccursAt(hay, needle, i) ==
    \A j \in 1..Len(needle) : hay[i + j] = needle[j]

\* the lowest index from i on where needle occurs in hay, else -1
RECURSIVE FindFrom(_, _, _)
FindFrom(hay, needle, i) ==
    IF i + Len(needle) > Len(hay) THEN -1
    ELSE IF OccursAt(hay, needle, i) THEN i
    ELSE FindFrom(hay, needle, i + 1)

\* str.find(needle): the lowest 0-based index where needle occurs, else -1
Find(hay, needle) == FindFrom(hay, needle, 0)

\* str.split(sep), sep not empty: the pieces between the occurrences of sep
RECURSIVE Split(_, _)
Split(s, sep) ==
    LET i == Find(s, sep)
    IN  IF i = -1 THEN <<s>>
        ELSE <<SubSeq(s, 1, i)>> \o Split(SubSeq(s, i + Len(sep) + 1, Len(s)), sep)

\* sep.join(parts), parts a list of strings
RECURSIVE Join(_, _)
Join(sep, parts) ==
    IF Len(parts) = 0 THEN <<>>
    ELSE IF Len(parts) = 1 THEN parts[1]
    ELSE parts[1] \o sep \o Join(sep, Tail(parts))

\* sep.join(s), s a string: its characters joined by sep
JoinChars(sep, s) == Join(sep, [i \in 1..Len(s) |-> <<s[i]>>])

\* str(x) as an f-string renders it: None becomes the text "None"
Str(x) == IF x = None THEN <<"N","o","n","e">> ELSE x

RECURSIVE Flatten(_)
Flatten(ss) == IF Len(ss) = 0 THEN <<>> ELSE Head(ss) \o Flatten(Tail(ss))

-----------------------------------------------------------------------------
(* Pull requests: title, body (None when the pull request has no body),    *)
(* head.ref, creation and closing day, author login.                       *)

PullRequest(id, login, title, body, ref, created, closed) ==
    [id |-> id, login |-> login, title |-> title, body |-> body, ref |-> ref,
     created_at |-> created, closed_at |-> closed]

-----------------------------------------------------------------------------
(* get_pr: the aliases of an issue identifier and the first pull request   *)
(* whose title or branch contains one of them.                             *)

\* the second piece of issue.split(sep), appended only when there is one;
\* raised marks the IndexError of indexing [1] into a one-piece split
SecondPieceUnguarded(issue, sep) ==
    LET parts == Split(issue, sep)
    IN  IF Len(parts) > 1 THEN [raised |-> FALSE, val |-> <<parts[2]>>]
        ELSE [raised |-> TRUE, val |-> <<>>]

SecondPiece(issue, sep) ==
    LET parts == Split(issue, sep)
    IN  IF Len(parts) > 1 THEN [raised |-> FALSE, val |-> <<parts[2]>>]
        ELSE [raised |-> FALSE, val |-> <<>>]

\* lines 175-181: the list names
AliasNames(issue) ==
    LET u == SecondPiece(issue, <<"_">>)
        h == SecondPiece(issue, <<"-">>)
        f == SecondPiece(issue, <<"F","L","I","P">>)
    IN  [raised |-> u.raised \/ h.raised \/ f.raised,
         names  |-> <<issue, Join(<<"-">>, Split(issue, <<"_">>))>>
                     \o u.val \o h.val \o f.val]

\* line 186
PrMatchesName(pr, name) ==
    \/ Find(Lower(pr.title), Lower(name)) # -1
    \/ Find(Lower(pr.ref), Lower(name)) # -1

\* lines 183-189: name-major search; <<pr>> for the pull request returned,
\* <<>> for the None of falling through both loops
FirstPrFor(ns, prs) ==
    LET hits == {<<n, p>> \in (1..Len(ns)) \X (1..Len(prs)) : PrMatchesName(prs[p], ns[n])}
    IN  IF hits = {} THEN <<>>
        ELSE LET n0 == SetMin({h[1] : h \in hits})
                 p0 == SetMin({h[2] : h \in {g \in hits : g[1] = n0}})
             IN  <<prs[p0]>>

\* identifiers are built from at most MaxIdTokens of these pieces
MaxIdTokens == 3
IdTokens == {<<"F","L","I","P">>, <<"A","B">>, <<"-">>, <<"_">>, <<"4","2">>}
RECURSIVE TokenLists(_)
TokenLists(n) ==
    IF n = 0 THEN {<<>>}
    ELSE LET shorter == TokenLists(n - 1)
         IN  shorter \cup {Append(l, t) : l \in {x \in shorter : Len(x) = n - 1}, t \in IdTokens}
Identifiers == {Flatten(l) : l \in TokenLists(MaxIdTokens)}

GpPr1 == PullRequest(1, "me", <<"F","i","x"," ","4","2">>, None, <<"f","e","a","t","/","a","b","_","4","2">>, 3, 4)
GpPr2 == PullRequest(2, "me", <<"A","B","-","4","2"," ","x">>, None, <<"m","a","i","n">>, 5, 6)
GpPullrequestLists == {<<>>, <<GpPr1>>, <<GpPr1, GpPr2>>, <<GpPr2, GpPr1>>}

GpIdle ==
    /\ gp_issue = <<>> /\ gp_prs = <<>> /\ gp_pc = "idle"
    /\ names = <<>> /\ gp_ret = <<>>

GpInit ==
    /\ gp_issue \in Identifiers
    /\ gp_prs \in GpPullrequestLists
    /\ gp_pc = "call"
    /\ names = <<>>
    /\ gp_ret = <<>>

\* lines 175-181
GetPrNames ==
    /\ gp_pc = "call"
    /\ LET a == AliasNames(gp_issue)
       IN  /\ names' = a.names
           /\ gp_pc' = IF a.raised THEN "raised" ELSE "search"
    /\ UNCHANGED <<gp_issue, gp_prs, gp_ret, notGp>>

\* lines 183-189
GetPrSearch ==
    /\ gp_pc = "search"
    /\ gp_ret' = FirstPrFor(names, gp_prs)
    /\ gp_pc' = "returned"
    /\ UNCHANGED <<gp_issue, gp_prs, names, notGp>>

GdIdle ==
    /\ gd_issue = <<>> /\ gd_n = 0 /\ gd_pc = "idle"
    /\ date_from = 0 /\ date_to = 0

XIdle ==
    /\ pulls = <<>> /\ x_issues = <<>> /\ pullrequests = <<>>
    /\ x_pc = "idle" /\ x_n = 0 /\ row = 0 /\ sheet = <<>>

FiIdle ==
    /\ fi_pr = None /\ fi_issues = <<>> /\ fi_pc = "idle"
    /\ results = <<>> /\ ran = {} /\ warned = FALSE

InitGetPr == GpInit /\ FiIdle /\ GdIdle /\ XIdle
NextGetPr == GetPrNames \/ GetPrSearch
SpecGetPr == InitGetPr /\ [][NextGetPr]_vars

-----------------------------------------------------------------------------
(* difflib.SequenceMatcher(None, a, b).ratio().  No character is junk: the *)
(* isjunk argument is None and the automatic junk heuristic only acts on   *)
(* strings of 200 characters or more.  Indices are 0-based, ranges         *)
(* half-open, as in find_longest_match.                                    *)

\* the common blocks <<i, j, k>> with a[i:i+k] = b[j:j+k] inside the ranges
CommonBlocks(a, b, alo, ahi, blo, bhi) ==
    {blk \in (alo..(ahi - 1)) \X (blo..(bhi - 1)) \X (1..(ahi - alo)) :
        /\ blk[1] + blk[3] <= ahi
        /\ blk[2] + blk[3] <= bhi
        /\ SubSeq(a, blk[1] + 1, blk[1] + blk[3]) = SubSeq(b, blk[2] + 1, blk[2] + blk[3])}

\* find_longest_match: the longest block, of those the one starting earliest
\* in a, of those the one starting earliest in b; <<alo, blo, 0>> if none
LongestMatch(a, b, alo, ahi, blo, bhi) ==
    LET blocks == CommonBlocks(a, b, alo, ahi, blo, bhi)
    IN  IF blocks = {} THEN <<alo, blo, 0>>
        ELSE CHOOSE x \in blocks : \A y \in blocks :
                \/ x[3] > y[3]
                \/ x[3] = y[3] /\ x[1] < y[1]
                \/ x[3] = y[3] /\ x[1] = y[1] /\ x[2] <= y[2]

\* get_matching_blocks: the total size of the blocks found by recursing to
\* the left and to the right of the longest match
RECURSIVE MatchCount(_, _, _, _, _, _)
MatchCount(a, b, alo, ahi, blo, bhi) ==
    LET m == LongestMatch(a, b, alo, ahi, blo, bhi)
    IN  IF m[3] = 0 THEN 0
        ELSE m[3] + MatchCount(a, b, alo, m[1], blo, m[2])
                  + MatchCount(a, b, m[1] + m[3], ahi, m[2] + m[3], bhi)

\* ratio() > pct/100, where ratio() is 2.0*matches/length, and 1.0 when both
\* strings are empty
RatioAbove(a, b, pct) ==
    LET length  == Len(a) + Len(b)
        matches == MatchCount(a, b, 0, Len(a), 0, Len(b))
    IN  IF length = 0 THEN 100 > pct ELSE 200 * matches > pct * length

-----------------------------------------------------------------------------
(* find_issues_for_pr *)

Issue(key, summary, description, histories) ==
    [key |-> key, summary |-> summary, description |-> description,
     histories |-> histories]

FindInNotLowered(pr) == pr.title \o <<" ">> \o Str(pr.body) \o <<" ">> \o pr.ref

\* line 192
FindIn(pr) == Lower(pr.title \o <<" ">> \o Str(pr.body) \o <<" ">> \o pr.ref)

\* the five texts searched for, lines 196, 199, 202, 205, 208
Patterns(key) ==
    LET lk    == Lower(key)
        parts == Split(lk, <<"-">>)
    IN  << lk,
           Join(<<>>, parts),
           Join(<<"_">>, parts),
           parts[2] \o <<" ">>,
           JoinChars(<<" ">>, parts[2]) >>

\* one of the five if statements: acc is [results, k]
AppendIfFoundNoDedup(acc, i, pattern, find_in) ==
    IF Find(find_in, pattern) # -1
    THEN [results |-> Append(acc.results, i), k |-> acc.k \cup {i.key}]
    ELSE acc

AppendIfFound(acc, i, pattern, find_in) ==
    IF Find(find_in, pattern) # -1 /\ i.key \notin acc.k
    THEN [results |-> Append(acc.results, i), k |-> acc.k \cup {i.key}]
    ELSE acc

\* lines 196-210, the body of the loop for one issue: the five ifs in turn
RECURSIVE AliasIfs(_, _, _, _, _)
AliasIfs(acc, i, pats, n, find_in) ==
    IF n > Len(pats) THEN acc
    ELSE AliasIfs(AppendIfFound(acc, i, pats[n], find_in), i, pats, n + 1, find_in)

\* lines 195-210
RECURSIVE AliasLoop(_, _, _)
AliasLoop(acc, issues, find_in) ==
    IF Len(issues) = 0 THEN acc
    ELSE AliasLoop(AliasIfs(acc, Head(issues), Patterns(Head(issues).key), 1, find_in),
                   Tail(issues), find_in)

\* lines 193-210
AliasPass(pr, issues) == AliasLoop([results |-> <<>>, k |-> {}], issues, FindIn(pr)).results

ThresholdA == 75
ThresholdB == 50
ThresholdC == 25

\* lines 214-216, 222-224, 230-232
Similar(i, pr, pct) == RatioAbove(Lower(i.summary), Lower(pr.title), pct)

FirstSimilarLast(pr, issues, pct) ==
    LET hits == {n \in 1..Len(issues) : Similar(issues[n], pr, pct)}
    IN  IF hits = {} THEN <<>> ELSE <<issues[CHOOSE x \in hits : \A y \in hits : x >= y]>>

\* one similarity loop: the first issue above the threshold, alone
FirstSimilar(pr, issues, pct) ==
    LET hits == {n \in 1..Len(issues) : Similar(issues[n], pr, pct)}
    IN  IF hits = {} THEN <<>> ELSE <<issues[SetMin(hits)]>>

\* lines 191-237 as a whole
FindIssuesForPr(pr, issues) ==
    LET r == AliasPass(pr, issues)
        a == FirstSimilar(pr, issues, ThresholdA)
        b == FirstSimilar(pr, issues, ThresholdB)
        c == FirstSimilar(pr, issues, ThresholdC)
    IN  IF Len(r) # 0 THEN r
        ELSE IF Len(a) # 0 THEN a
        ELSE IF Len(b) # 0 THEN b
        ELSE c

\* the texts of the inputs
K_CD7 == <<"C","D","-","7">>
K_AB12 == <<"A","B","-","1","2">>
S_abc == <<"a","b","c">>
S_abcx == <<"a","b","c","x">>
K_EF3 == <<"E","F","-","3">>
T_cd7ef3 == <<"c","d","7"," ","3"," ","e","f","_","3">>
S_ab == <<"A","b">>
S_a == <<"a">>
S_xyz == <<"x","y","z">>
T_FixCD7 == <<"F","i","x"," ","C","D","-","7">>
T_ab_12fix == <<"a","b","_","1","2"," ","f","i","x">>
T_abcd == <<"A","B","c","d">>
T_x12 == <<"x"," ","1"," ","2">>
B_seeCD7 == <<"s","e","e"," ","c","d","-","7">>
B_ok == <<"o","k">>
T_qq == <<"q","q">>
R_featAB12 == <<"f","e","a","t","/","A","B","-","1","2">>
R_main == <<"m","a","i","n">>
R_ab12 == <<"a","b","1","2">>

\* issue lists hold at most MaxIssues issues
MaxIssues == 3
FiIssueSet ==
    { Issue(K_CD7,  S_abc,  None, <<>>),
      Issue(K_AB12, S_abcx, None, <<>>),
      Issue(K_AB12, S_a,    None, <<>>),
      Issue(K_CD7,  S_xyz,  None, <<>>),
      Issue(K_EF3,  S_ab,   None, <<>>) }
RECURSIVE ListsOf(_, _)
ListsOf(S, n) ==
    IF n = 0 THEN {<<>>}
    ELSE LET shorter == ListsOf(S, n - 1)
         IN  shorter \cup {Append(l, x) : l \in {y \in shorter : Len(y) = n - 1}, x \in S}
FiPullRequests ==
    { PullRequest(1, "me", T_FixCD7,   None,      R_main, 3, 4),
      PullRequest(2, "me", T_ab_12fix, None,      R_main, 3, 4),
      PullRequest(3, "me", T_abcd,     None,      R_main, 3, 4),
      PullRequest(4, "me", T_x12,      None,      R_main, 3, 4),
      PullRequest(5, "me", T_abcd,     B_seeCD7,  R_main, 3, 4),
      PullRequest(6, "me", T_abcd,     None,      R_ab12, 3, 4),
      PullRequest(7, "me", T_cd7ef3,   None,      R_main, 3, 4),
      PullRequest(8, "me", T_abcd,     None,      R_featAB12, 3, 4) }

FiInit ==
    /\ fi_pr \in FiPullRequests
    /\ fi_issues \in ListsOf(FiIssueSet, MaxIssues)
    /\ fi_pc = "alias"
    /\ results = <<>>
    /\ ran = {}
    /\ warned = FALSE

\* lines 192-210
FiAliasPass ==
    /\ fi_pc = "alias"
    /\ results' = AliasPass(fi_pr, fi_issues)
    /\ fi_pc' = "ifA"
    /\ UNCHANGED <<fi_pr, fi_issues, ran, warned, notFi>>

\* lines 211-237 when the alias pass found something: every later
\* `if len(results)==0` is false and results is returned as it is
FiReturnAliases ==
    /\ fi_pc = "ifA"
    /\ Len(results) # 0
    /\ fi_pc' = "done"
    /\ UNCHANGED <<fi_pr, fi_issues, results, ran, warned, notFi>>

\* lines 211-218: attempt A and its return
FiAttemptA ==
    /\ fi_pc = "ifA"
    /\ Len(results) = 0
    /\ ran' = ran \cup {"A"}
    /\ results' = FirstSimilar(fi_pr, fi_issues, ThresholdA)
    /\ fi_pc' = IF Len(results') # 0 THEN "done" ELSE "ifB"
    /\ UNCHANGED <<fi_pr, fi_issues, warned, notFi>>

\* lines 219-226: attempt B and its return
FiAttemptB ==
    /\ fi_pc = "ifB"
    /\ Len(results) = 0
    /\ ran' = ran \cup {"B"}
    /\ results' = FirstSimilar(fi_pr, fi_issues, ThresholdB)
    /\ fi_pc' = IF Len(results') # 0 THEN "done" ELSE "ifC"
    /\ UNCHANGED <<fi_pr, fi_issues, warned, notFi>>

\* lines 227-234: attempt C and its return
FiAttemptC ==
    /\ fi_pc = "ifC"
    /\ Len(results) = 0
    /\ ran' = ran \cup {"C"}
    /\ results' = FirstSimilar(fi_pr, fi_issues, ThresholdC)
    /\ fi_pc' = IF Len(results') # 0 THEN "done" ELSE "ifWarn"
    /\ UNCHANGED <<fi_pr, fi_issues, warned, notFi>>

\* lines 235-237
FiWarn ==
    /\ fi_pc = "ifWarn"
    /\ Len(results) = 0
    /\ warned' = TRUE
    /\ fi_pc' = "done"
    /\ UNCHANGED <<fi_pr, fi_issues, results, ran, notFi>>

InitFind == FiInit /\ GpIdle /\ GdIdle /\ XIdle
NextFind == FiAliasPass \/ FiReturnAliases \/ FiAttemptA \/ FiAttemptB \/ FiAttemptC \/ FiWarn
SpecFind == InitFind /\ [][NextFind]_vars

-----------------------------------------------------------------------------
(* get_issue_dates.  A history entry carries created, an ISO-8601 text     *)
(* with a UTC offset, modelled by the instant it names (utc) and its       *)
(* offset; its wall-clock reading is utc + offset.  Each item of the entry *)
(* names the field changed and the value it changed to (toString).         *)

\* the '' that date_from and date_to start as, lines 241-242
Absent == 0

History(utc, offset, items) ==
    [created |-> [utc |-> utc, offset |-> offset], items |-> items]
Item(field, toString) == [field |-> field, toString |-> toString]

\* dateutil.parser.parse(created).replace(tzinfo=None): the wall-clock
\* reading of the text, its offset dropped without conversion
ParseNaive(created) == created.utc + created.offset

\* lines 247-250, one item; acc is [date_from, date_to]
VisitItem(acc, item, created) ==
    LET a == IF item.field = "status" /\ item.toString = "Done"
             THEN [acc EXCEPT !.date_to = ParseNaive(created)]
             ELSE acc
    IN  IF item.field = "status" /\ (item.toString = "In Progress" \/ item.toString = "To Do")
        THEN [a EXCEPT !.date_from = ParseNaive(created)]
        ELSE a

\* lines 245-250
RECURSIVE VisitItems(_, _, _)
VisitItems(acc, items, created) ==
    IF Len(items) = 0 THEN acc
    ELSE VisitItems(VisitItem(acc, Head(items), created), Tail(items), created)

VisitHistoryNoFallback(acc, history) ==
    VisitItems(acc, history.items, history.created)

VisitHistoryKeepStart(acc, history) ==
    VisitItems(IF acc.date_from = Absent
               THEN [acc EXCEPT !.date_from = ParseNaive(history.created)]
               ELSE acc,
               history.items, history.created)

\* lines 244-250, the body of the loop for one history entry
VisitHistory(acc, history) ==
    VisitItems([acc EXCEPT !.date_from = ParseNaive(history.created)],
               history.items, history.created)

\* lines 243-250
RECURSIVE VisitHistories(_, _)
VisitHistories(acc, histories) ==
    IF Len(histories) = 0 THEN acc
    ELSE VisitHistories(VisitHistory(acc, Head(histories)), Tail(histories))

\* lines 240-252 as a whole
GetIssueDates(issue) ==
    VisitHistories([date_from |-> Absent, date_to |-> Absent], issue.histories)

\* histories hold at most MaxHist entries, created at instants 1..MaxTime
MaxHist == 2
MaxTime == 3
\* the UTC offsets of summer and winter time, in the unit of the instants
Offsets == {0, 2}
\* the offset in force at each instant: one offset throughout, or a change
\* of the clocks at instant s
Zones ==
    {[t \in 1..MaxTime |-> IF t < s THEN a ELSE b] :
        s \in 1..MaxTime, a \in Offsets, b \in Offsets}
ItemLists ==
    { <<Item("status", "Done")>>,
      <<Item("status", "In Progress")>>,
      <<Item("status", "To Do")>>,
      <<Item("status", "Review")>>,
      <<Item("assignee", "me")>>,
      <<Item("resolution", "Done"), Item("status", "Done")>> }
HistoryEntries(zone) ==
    {History(t, zone[t], il) : t \in 1..MaxTime, il \in ItemLists}

\* the order the tracker returns: by the instant of creation
Chronological(hs) == \A m, n \in 1..Len(hs) : m < n => hs[m].created.utc <= hs[n].created.utc

RECURSIVE ChronologicalLists(_, _)
ChronologicalLists(zone, n) ==
    IF n = 0 THEN {<<>>}
    ELSE LET shorter == ChronologicalLists(zone, n - 1)
             longest == {y \in shorter : Len(y) = n - 1}
         IN  shorter \cup
             {l \in {Append(y, h) : y \in longest, h \in HistoryEntries(zone)} :
                Chronological(l)}

Histories == UNION {ChronologicalLists(zone, MaxHist) : zone \in Zones}

GdInit ==
    /\ gd_issue \in {Issue(K_CD7, S_abc, None, hs) :
                        hs \in Histories}
    /\ gd_n = 0
    /\ gd_pc = "loop"
    /\ date_from = Absent
    /\ date_to = Absent

\* lines 243-250: one turn of the loop over issue.changelog.histories
GdVisitHistory ==
    /\ gd_pc = "loop"
    /\ gd_n < Len(gd_issue.histories)
    /\ LET acc == VisitHistory([date_from |-> date_from, date_to |-> date_to],
                               gd_issue.histories[gd_n + 1])
       IN  /\ date_from' = acc.date_from
           /\ date_to' = acc.date_to
    /\ gd_n' = gd_n + 1
    /\ UNCHANGED <<gd_issue, gd_pc, notGd>>

\* line 252
GdReturn ==
    /\ gd_pc = "loop"
    /\ gd_n = Len(gd_issue.histories)
    /\ gd_pc' = "returned"
    /\ UNCHANGED <<gd_issue, gd_n, date_from, date_to, notGd>>

InitDates == GdInit /\ GpIdle /\ FiIdle /\ XIdle
NextDates == GdVisitHistory \/ GdReturn
SpecDates == InitDates /\ [][NextDates]_vars

-----------------------------------------------------------------------------
(* main from line 53 on: find_pullrequests, then xls_export when there are *)
(* issues.  Days stand for the dates and datetimes of pull requests.       *)

\* line 132
ByUserInRange(pr, config, date, date2) ==
    pr.login = config.username /\ date <= pr.created_at /\ pr.created_at <= date2

\* lines 128-135: the pull requests kept, in the order GitHub lists them
RECURSIVE FindPullrequests(_, _, _, _)
FindPullrequests(prs, config, date, date2) ==
    IF Len(prs) = 0 THEN <<>>
    ELSE (IF ByUserInRange(Head(prs), config, date, date2) THEN <<Head(prs)>> ELSE <<>>)
         \o FindPullrequests(Tail(prs), config, date, date2)

\* the values written to cells: a date (Absent for ''), a text, the link of
\* a pull request (by its id) or of an issue (by its key)
DateValue(d) == [type |-> "date", n |-> d, text |-> <<>>]
TextValue(t) == [type |-> "text", n |-> 0, text |-> t]
PullLink(id) == [type |-> "pull", n |-> id, text |-> <<>>]
IssueLink(key) == [type |-> "issue", n |-> 0, text |-> key]

\* sheet.write(row, col, value): the sheet is the list of the writes made;
\* kind names the loop that wrote
Write(sh, r, c, kind, value) ==
    Append(sh, [row |-> r, col |-> c, kind |-> kind, val |-> value])

\* lines 287-298
column_headers ==
    << <<"C","r","e","a","t","e","d"," ","a","t">>,
       <<"C","l","o","s","e","d"," ","a","t">>,
       <<"B","r","a","n","c","h"," ","/"," ","i","d">>,
       <<"T","i","t","l","e">>,
       <<"L","i","n","k">>,
       <<"D","e","s","c","r","i","p","t","i","o","n">> >>

\* lines 302-304
RECURSIVE WriteTitles(_, _)
WriteTitles(sh, column) ==
    IF column >= Len(column_headers) THEN sh
    ELSE WriteTitles(Write(sh, 0, column, "title", TextValue(column_headers[column + 1])), column + 1)

\* line 317, `type(start_date) is datetime`: datetime is the module imported
\* on line 20, and the type of no value is a module
TypeIsDatetime(start_date) == FALSE

\* lines 314-321: start_issue after the loop over issues_for_pr
RECURSIVE StartIssue(_, _)
StartIssue(start_issue, issues_for_pr) ==
    IF Len(issues_for_pr) = 0 THEN start_issue
    ELSE LET start_date == GetIssueDates(Head(issues_for_pr)).date_from
         IN  StartIssue(IF TypeIsDatetime(start_date) /\ start_date < start_issue
                        THEN start_date ELSE start_issue,
                        Tail(issues_for_pr))

\* lines 323-328
HeaderRow(sh, r, pr, start_issue) ==
    LET c0 == Write(sh, r, 0, "header", DateValue(start_issue))
        c1 == Write(c0, r, 1, "header", DateValue(pr.closed_at))
        c2 == Write(c1, r, 2, "header", TextValue(pr.ref))
        c3 == Write(c2, r, 3, "header", TextValue(pr.title))
    IN  Write(c3, r, 4, "header", PullLink(pr.id))

\* line 334
MaxDescription == 1000

\* `not description`, line 332
Falsy(description) == description = None \/ description = <<>>

\* lines 330-345, one detail row; st is [row, sheet, raised].  len(None)
\* raises TypeError on line 334, after row was advanced and before any cell
\* of the row is written
DetailRow(st, pr, issue) ==
    LET r  == st.row + 1
        d0 == issue.description
        d1 == IF Falsy(d0) THEN pr.body ELSE d0
    IN  IF d1 = None THEN [st EXCEPT !.row = r, !.raised = TRUE]
        ELSE LET description ==
                     IF Len(d1) > MaxDescription
                     THEN SubSeq(d1, 1, MaxDescription) \o <<" ", ".", ".", ".">>
                     ELSE d1
                 dates == GetIssueDates(issue)
                 c0 == Write(st.sheet, r, 0, "detail", DateValue(dates.date_from))
                 c1 == Write(c0, r, 1, "detail", DateValue(dates.date_to))
                 c2 == Write(c1, r, 2, "detail", TextValue(issue.key))
                 c3 == Write(c2, r, 3, "detail", TextValue(issue.summary))
                 c5 == Write(c3, r, 5, "detail", TextValue(description))
             IN  [st EXCEPT !.row = r,
                            !.sheet = Write(c5, r, 4, "detail", IssueLink(issue.key))]

\* lines 329-345
RECURSIVE DetailRows(_, _, _)
DetailRows(st, pr, issues_for_pr) ==
    IF Len(issues_for_pr) = 0 \/ st.raised THEN st
    ELSE DetailRows(DetailRow(st, pr, Head(issues_for_pr)), pr, Tail(issues_for_pr))

NextGroupRowNoBlank(r) == r + 1

\* line 346
NextGroupRow(r) == r + 2

\* the arguments of the run: the GitHub user and the first and last day
XlsConfig == [username |-> "me"]
XlsDates == [date |-> 1, date2 |-> 8]

\* the issue list holds at most MaxXlsIssues issues, GitHub lists at most
\* MaxPulls pull requests
MaxXlsIssues == 2
MaxPulls == 2
D_long == [n \in 1..(MaxDescription + 1) |-> "x"]
XlsIssueSet ==
    { Issue(K_CD7,  S_abc,  None,   <<History(1, 0, <<Item("status", "In Progress")>>),
                                      History(2, 0, <<Item("status", "Done")>>)>>),
      Issue(K_EF3,  S_xyz,  D_long, <<History(7, 0, <<Item("status", "To Do")>>)>>),
      Issue(K_AB12, S_abcx, B_ok,   <<>>) }
XlsPulls ==
    { PullRequest(1, "me",  T_FixCD7,   None,     R_main, 5, 6),
      PullRequest(2, "me",  T_abcd,     B_seeCD7, R_main, 3, 4),
      PullRequest(3, "me",  T_cd7ef3,   B_ok,     R_main, 6, 7),
      PullRequest(4, "you", T_ab_12fix, None,     R_main, 4, 5),
      PullRequest(5, "me",  T_ab_12fix, B_ok,     R_ab12, 9, 9),
      PullRequest(6, "me",  T_qq,       B_ok,     R_main, 7, 8) }

\* repo.get_pulls(state='closed', sort='created'), line 126: sorted by
\* creation; the call names no direction, which is left to GitHub
SortedByCreated(prs) ==
    \/ \A m, n \in 1..Len(prs) : m < n => prs[m].created_at < prs[n].created_at
    \/ \A m, n \in 1..Len(prs) : m < n => prs[m].created_at > prs[n].created_at

XInit ==
    /\ pulls \in {l \in ListsOf(XlsPulls, MaxPulls) : SortedByCreated(l)}
    /\ x_issues \in ListsOf(XlsIssueSet, MaxXlsIssues)
    /\ pullrequests = <<>>
    /\ x_pc = "find_pullrequests"
    /\ x_n = 0
    /\ row = 0
    /\ sheet = <<>>

\* line 55
MainFindPullrequests ==
    /\ x_pc = "find_pullrequests"
    /\ pullrequests' = FindPullrequests(pulls, XlsConfig, XlsDates.date, XlsDates.date2)
    /\ x_pc' = "if_issues"
    /\ UNCHANGED <<pulls, x_issues, x_n, row, sheet, notX>>

\* lines 59-60
MainNoTasks ==
    /\ x_pc = "if_issues"
    /\ ~(Len(x_issues) > 0)
    /\ x_pc' = "no_tasks"
    /\ UNCHANGED <<pulls, x_issues, pullrequests, x_n, row, sheet, notX>>

\* lines 56-58 and 282-306: xls_export up to its loop
XlsTitles ==
    /\ x_pc = "if_issues"
    /\ Len(x_issues) > 0
    /\ sheet' = WriteTitles(sheet, 0)
    /\ row' = 1
    /\ x_pc' = "loop"
    /\ UNCHANGED <<pulls, x_issues, pullrequests, x_n, notX>>

\* lines 307-346: one turn of the loop over pullrequests
XlsGroup ==
    /\ x_pc = "loop"
    /\ x_n < Len(pullrequests)
    /\ LET pr == pullrequests[x_n + 1]
           issues_for_pr == FindIssuesForPr(pr, x_issues)
           start_issue == StartIssue(pr.created_at, issues_for_pr)
           st == DetailRows([row |-> row,
                             sheet |-> HeaderRow(sheet, row, pr, start_issue),
                             raised |-> FALSE],
                            pr, issues_for_pr)
       IN  /\ sheet' = st.sheet
           /\ row' = IF st.raised THEN st.row ELSE NextGroupRow(st.row)
           /\ x_pc' = IF st.raised THEN "raised" ELSE "loop"
    /\ x_n' = x_n + 1
    /\ UNCHANGED <<pulls, x_issues, pullrequests, notX>>

\* line 351
XlsSave ==
    /\ x_pc = "loop"
    /\ x_n = Len(pullrequests)
    /\ x_pc' = "saved"
    /\ UNCHANGED <<pulls, x_issues, pullrequests, x_n, row, sheet, notX>>

InitXls == XInit /\ GpIdle /\ FiIdle /\ GdIdle
NextXls == MainFindPullrequests \/ MainNoTasks \/ XlsTitles \/ XlsGroup \/ XlsSave
SpecXls == InitXls /\ [][NextXls]_vars

-----------------------------------------------------------------------------
(* The properties checked *)

\* text holds key, in any case of its letters
Holds(text, key) ==
    \E i \in 1..Len(text) :
        /\ i + Len(key) - 1 <= Len(text)
        /\ \A j \in 1..Len(key) : LowerChar(text[i + j - 1]) = LowerChar(key[j])

\* the key of the n-th issue of fi_issues occurs in the title, the body or
\* the branch of fi_pr
KeyInText(n) ==
    \/ Holds(fi_pr.title, fi_issues[n].key)
    \/ fi_pr.body # None /\ Holds(fi_pr.body, fi_issues[n].key)
    \/ Holds(fi_pr.ref, fi_issues[n].key)

\* C1: once the alias pass has run on a pull request whose combined text
\* contains the lower-cased key of at least one issue, results is not empty,
\* holds an issue of every such key, and no similarity attempt has run.
C1_AliasBypassesSimilarity ==
    (fi_pc \in {"ifA", "ifB", "ifC", "ifWarn", "done"}
        /\ \E n \in 1..Len(fi_issues) : KeyInText(n))
    => /\ Len(results) # 0
       /\ \A n \in 1..Len(fi_issues) :
            KeyInText(n) => \E m \in 1..Len(results) : results[m].key = fi_issues[n].key
       /\ ran = {}

\* a pull request naming a key in upper case at the end of its branch, where
\* only the literal key matches, correlated by the alias pass alone
C1_Witness ==
    /\ fi_pc = "done"
    /\ fi_pr.ref = R_featAB12
    /\ \E n \in 1..Len(fi_issues) : KeyInText(n)
    /\ \E n \in 1..Len(fi_issues) : ~KeyInText(n)
    /\ Len(results) # 0
    /\ ran = {}

\* the issues above 0.75, above 0.5, above 0.25
AboveA(n) == Similar(fi_issues[n], fi_pr, ThresholdA)
AboveB(n) == Similar(fi_issues[n], fi_pr, ThresholdB)
AboveC(n) == Similar(fi_issues[n], fi_pr, ThresholdC)
IsFirst(n, P(_)) == P(n) /\ \A m \in 1..(n - 1) : ~P(m)

\* C2: when the alias pass found nothing (attempt A ran) and the call has
\* returned: if an issue is above 0.75 the result is the first such issue
\* alone and B and C did not run; else if an issue is above 0.5 the result is
\* the first such issue alone and C did not run.
C2_CascadeStopsAtFirstHit ==
    (fi_pc = "done" /\ "A" \in ran)
    => /\ \A n \in 1..Len(fi_issues) :
            IsFirst(n, AboveA) => results = <<fi_issues[n]>> /\ ran = {"A"}
       /\ \A n \in 1..Len(fi_issues) :
            (IsFirst(n, AboveB) /\ \A m \in 1..Len(fi_issues) : ~AboveA(m))
                => results = <<fi_issues[n]>> /\ ran = {"A", "B"}

\* attempt A returned the second issue although the first one is in (0.5, 0.75]
C2_Witness ==
    /\ fi_pc = "done"
    /\ ran = {"A"}
    /\ Len(fi_issues) >= 2
    /\ AboveB(1) /\ ~AboveA(1)
    /\ results = <<fi_issues[2]>>

\* C8: the sequence find_issues_for_pr builds never holds two issues of the
\* same key, and its issues stand in the order they have in the issue list.
C8_UniqueInListOrder ==
    /\ \A m, n \in 1..Len(results) : m # n => results[m].key # results[n].key
    /\ \E f \in [1..Len(results) -> 1..Len(fi_issues)] :
          /\ \A m \in 1..Len(results) : fi_issues[f[m]] = results[m]
          /\ \A m, n \in 1..Len(results) : m < n => f[m] < f[n]

\* a list naming one key twice, both entries matched by the text, reported
\* once, before a later issue
C8_Witness ==
    /\ fi_pc = "done"
    /\ Len(fi_issues) = 3
    /\ fi_issues[1].key = fi_issues[2].key
    /\ Len(results) = 2
    /\ results[1] = fi_issues[1]
    /\ results[2] = fi_issues[3]

HasNo(s, sep) == Find(s, sep) = -1

\* C7: alias generation in get_pr raises for no identifier, and names always
\* holds the identifier itself.
C7_AliasesNeverFail ==
    gp_pc \in {"search", "raised", "returned"}
    => /\ gp_pc # "raised"
       /\ \E n \in 1..Len(names) : names[n] = gp_issue

\* an identifier without hyphen, underscore or FLIP: both derivations skipped
C7_Witness ==
    /\ gp_pc = "returned"
    /\ Len(gp_issue) > 0
    /\ HasNo(gp_issue, <<"-">>) /\ HasNo(gp_issue, <<"_">>)
    /\ HasNo(gp_issue, <<"F","L","I","P">>)
    /\ names = <<gp_issue, gp_issue>>

\* the history get_issue_dates walks, and the wall-clock reading of entry n
Hist == gd_issue.histories
Naive(n) == ParseNaive(Hist[n].created)
HasItem(n, field, toString) ==
    \E j \in 1..Len(Hist[n].items) : Hist[n].items[j] = Item(field, toString)
\* entry n is a status transition to Done and changes the status to nothing else
IsDoneTransition(n) ==
    /\ HasItem(n, "status", "Done")
    /\ \A j \in 1..Len(Hist[n].items) :
          Hist[n].items[j].field = "status" => Hist[n].items[j].toString = "Done"

\* C3 as stated: with no history get_issue_dates returns (absent, absent);
\* with a single entry, a status transition to Done at T, it returns
\* (start, T) with start absent or strictly earlier than T.
C3_StartAbsentOrEarlier ==
    gd_pc = "returned"
    => /\ Len(Hist) = 0 => date_from = Absent /\ date_to = Absent
       /\ (Len(Hist) = 1 /\ IsDoneTransition(1))
            => /\ date_to = Naive(1)
               /\ date_from = Absent \/ date_from < Naive(1)

\* C3 as amended: with no history get_issue_dates returns (absent, absent);
\* with a single entry, a status transition to Done at T, it returns (T, T).
C3_StartIsDoneTime ==
    gd_pc = "returned"
    => /\ Len(Hist) = 0 => date_from = Absent /\ date_to = Absent
       /\ (Len(Hist) = 1 /\ IsDoneTransition(1))
            => date_to = Naive(1) /\ date_from = Naive(1)

\* the only entry is a transition to Done, and both dates are its time
C3_Witness ==
    /\ gd_pc = "returned"
    /\ Len(Hist) = 1
    /\ Hist[1].items = <<Item("status", "Done")>>
    /\ date_to = Naive(1)
    /\ date_from = date_to

\* the wall-clock readings of the history do not decrease
NaiveOrdered == \A m, n \in 1..Len(Hist) : m < n => Naive(m) <= Naive(n)

\* the start is the reading of the last entry visited, and an earlier entry
\* that sets In Progress at another reading is not the start
StartIsLastVisited ==
    gd_n > 0
    => /\ date_from = Naive(gd_n)
       /\ \A m \in 1..(gd_n - 1) :
            (HasItem(m, "status", "In Progress") /\ Naive(m) # Naive(gd_n))
                => date_from # Naive(m)

\* C10 as stated: the start is the timezone-stripped time of the last entry
\* visited, whatever the entries change; so for a history in chronological
\* order (every history here is) an end, when there is one, is never later
\* than the start, and an In Progress transition followed by a later entry
\* is not the start.
C10_EndNeverAfterStart ==
    /\ StartIsLastVisited
    /\ (gd_n > 0 /\ date_to # Absent) => date_to <= date_from

\* C10 as amended: the same, the end being never later than the start for a
\* history whose timezone-stripped times do not decrease.
C10_EndNeverAfterStartNaive ==
    /\ StartIsLastVisited
    /\ (gd_n > 0 /\ date_to # Absent /\ NaiveOrdered) => date_to <= date_from

\* In Progress at one time, Done at a later one: the start returned is the
\* time of the Done entry, and the end equals it
C10_Witness ==
    /\ gd_pc = "returned"
    /\ Len(Hist) = 2
    /\ Hist[1].items = <<Item("status", "In Progress")>>
    /\ Hist[2].items = <<Item("status", "Done")>>
    /\ Naive(1) < Naive(2)
    /\ date_from = Naive(2)
    /\ date_to = Naive(2)

\* the issues xls_export correlates with its k-th pull request
Correlated(k) == FindIssuesForPr(pullrequests[k], x_issues)
\* the row of the k-th header when the j-th group has counts[j] detail rows
\* and every group is followed by one blank row
RECURSIVE GroupRowIn(_, _)
GroupRowIn(counts, k) ==
    IF k = 1 THEN 1 ELSE GroupRowIn(counts, k - 1) + 1 + counts[k - 1] + 1
GroupRow(k) == GroupRowIn([j \in 1..Len(pullrequests) |-> Len(Correlated(j))], k)

\* the rows the writes of one kind went to, and the rows written to among
\* first..last
RowsOf(kind) == {sheet[n].row : n \in {m \in 1..Len(sheet) : sheet[m].kind = kind}}
Written(first, last) == {sheet[n].row : n \in 1..Len(sheet)} \cap (first..last)

\* C9: the sheet xls_export builds has the column titles in row 0 and, for
\* the k-th pull request with n correlated issues, a header row, n detail
\* rows right below it and one row left blank before the next header; no
\* cell is written twice; once the loop is over there is one header row for
\* each pull request.
C9_SheetLayout ==
    x_pc \in {"loop", "raised", "saved"}
    => LET counts  == [j \in 1..x_n |-> Len(Correlated(j))]
           headers == RowsOf("header")
           details == RowsOf("detail")
       IN  /\ RowsOf("title") = {0}
           /\ headers = {GroupRowIn(counts, k) : k \in 1..x_n}
           /\ \A k \in 1..x_n :
                LET first == GroupRowIn(counts, k) + 1
                    last  == GroupRowIn(counts, k) + counts[k]
                IN  /\ Written(first, last) \subseteq details
                    /\ (k < x_n \/ x_pc # "raised") => Written(first, last) = first..last
                    /\ Written(last + 1, last + 1) = {}
           /\ details \cap headers = {}
           /\ Cardinality({<<sheet[n].row, sheet[n].col>> : n \in 1..Len(sheet)}) = Len(sheet)
           /\ x_pc = "saved" => Cardinality(headers) = Len(pullrequests)

\* a saved sheet of two groups: one without issue, one with two
C9_Witness ==
    /\ x_pc = "saved"
    /\ Len(pullrequests) = 2
    /\ \E k \in 1..2 : Len(Correlated(k)) = 0
    /\ \E k \in 1..2 : Len(Correlated(k)) = 2
    /\ Cardinality(RowsOf("header")) = 2
    /\ row = 7

\* the start of section 4.5: the least derived start of the correlated issues
\* that is earlier than the pull request's creation, else the creation
EffectiveStart(pr, issues_for_pr) ==
    LET earlier == {d \in {GetIssueDates(issues_for_pr[n]).date_from :
                                n \in 1..Len(issues_for_pr)} :
                        d # Absent /\ d < pr.created_at}
    IN  IF earlier = {} THEN pr.created_at ELSE SetMin(earlier)

\* C4: in the saved sheet the start written in column 0 of the k-th header
\* row is the least derived start of the correlated issues that is earlier
\* than the pull request's creation, and the creation date only when there
\* is none.
C4_HeaderStartIsEarliest ==
    x_pc = "saved"
    => \A n \in 1..Len(sheet) :
          (sheet[n].kind = "header" /\ sheet[n].col = 0)
          => \A k \in 1..x_n :
                GroupRow(k) = sheet[n].row
                => sheet[n].val = DateValue(EffectiveStart(pullrequests[k], Correlated(k)))

\* the pull request ids of the header rows, by the link of column 4
HeaderLinks == {sheet[n] : n \in {m \in 1..Len(sheet) : sheet[m].kind = "header" /\ sheet[m].col = 4}}
CreatedAt(id) == (CHOOSE pr \in XlsPulls : pr.id = id).created_at

\* C5: in the saved sheet the groups stand in ascending order of creation.
C5_GroupsAscending ==
    x_pc = "saved"
    => \A v, w \in HeaderLinks :
          v.row < w.row => CreatedAt(v.val.n) <= CreatedAt(w.val.n)

\* C6: building a detail row never raises, whatever fields are missing.
C6_DetailRowNeverRaises == x_pc # "raised"

====
